---- MODULE Spec2Model ----
(***************************************************************************)
(* Session-identity and ownership model of the math-teacher backend.       *)
(*                                                                         *)
(* State: the users table (database.py, User), the chat_sessions table     *)
(* with its message rows (database.py, ChatSession; db_service.py,         *)
(* add_message), the process-wide cache `conversations` (main.py:45) and   *)
(* whether the durable store answers (SQLAlchemyError or not).             *)
(*                                                                         *)
(* uuid4 values are modelled as fresh positive integers; tokens and        *)
(* session ids a client invents are negative integers.  The clock `now`    *)
(* counts hours (reset-token and JWT expiry); the bookkeeping timestamps   *)
(* (created_at, last_active, last_login) are not modelled.                 *)
(***************************************************************************)
EXTENDS Integers, Sequences, FiniteSets, TLC

\* ---------------------------------------------------------------- bounds
MaxUsers == 3
MaxSessions == 2
MaxTurns == 1
MaxForged == 1
\* Users the session and the authentication operations are exercised with.
MaxCallers == 2
\* uuid4 values drawn while the authentication operations run, and hours passed.
MaxUuid == 4
MaxClock == 1
\* Sessions exercised alongside the identity operations.
MaxOwned == 1
\* Turns already completed on the session whose restoration is examined: enough
\* to pass the page size of get_session_messages.
MaxStoredTurns == 51
\* Database sessions writing message rows at the same time, and the messages
\* they write to one chat session.
MaxWriters == 2
MaxMessages == 2

\* Python's None (no user, no token, no session id, no email).
None == 0

ForgedTokens == {0 - i : i \in 1..MaxForged}
\* A session id the server never issued.
UnknownSid == 0 - 1
\* Addresses a caller may type: 1 is "x@y.com", -1 is "X@Y.COM".
EmailInputs == {1, 0 - 1}
Passwords == {1}
\* Passwords a caller may type at login or choose at a reset.
PasswordInputs == Passwords \cup {2}
\* Addresses typed at the authentication endpoints: 2 is another mailbox.
AuthEmails == EmailInputs \cup {2}

VARIABLES
    users,          \* table users: sequence of rows, users[i].id = i
    uuid_count,     \* uuid4 tokens handed out so far
    chat_sessions,  \* table chat_sessions with its messages: session_id -> row
    conversations,  \* main.py conversations: session_id -> cache record
    db_up,          \* FALSE: database operations raise SQLAlchemyError
    created_by,     \* history: session_id -> the identity create_session got
    minted,         \* history: results of get_or_create_anonymous_user(None)
    turns,          \* completed conversation-engine calls
    now,            \* datetime.utcnow(), in hours
    writers         \* message inserts in flight: writer -> its position and locals

\* A writer with no insert in flight.
Idle == [pc |-> "idle", kind |-> "none", sid |-> 0, read |-> 0]

vars == <<users, uuid_count, chat_sessions, conversations, db_up,
          created_by, minted, turns, now, writers>>
userVars == <<users, uuid_count, minted>>
sessVars == <<chat_sessions, conversations, created_by, turns>>

\* ------------------------------------------------------------- users table

\* str.lower() on an e-mail address.
lower(e) == IF e < 0 THEN 0 - e ELSE e

\* bcrypt.hashpw / bcrypt.checkpw: a hash is never the password itself.
set_password(p) == 10 + p
check_password(h, p) == h # None /\ p # None /\ h = 10 + p

UserRow(tok, em, ph, at) ==
    [session_token |-> tok, email |-> em, password_hash |-> ph,
     account_type |-> at, is_active |-> TRUE,
     reset_token |-> None, reset_token_expires |-> None]

UserIds == DOMAIN users

UsersByToken(U, tok) == {i \in DOMAIN U : U[i].session_token = tok}
UsersByEmail(U, em) == {i \in DOMAIN U : U[i].email = em}

\* The block the security fix removed from ensure_user_exists: reuse a stored
\* anonymous row when no credential is presented.
ensure_user_exists_reuse(U, session_token, email, fresh) ==
    LET anon == {i \in DOMAIN U : U[i].email = None /\ U[i].account_type = "anonymous"}
    IN  IF session_token # None /\ UsersByToken(U, session_token) # {}
        THEN [users |-> U, id |-> CHOOSE i \in UsersByToken(U, session_token) : TRUE,
              created |-> FALSE]
        ELSE IF session_token = None /\ email = None /\ anon # {}
        THEN [users |-> U, id |-> CHOOSE i \in anon : \A j \in anon : i <= j,
              created |-> FALSE]
        ELSE [users |-> Append(U, UserRow(IF session_token # None THEN session_token ELSE fresh,
                                          None, None, "anonymous")),
              id |-> Len(U) + 1, created |-> TRUE]

\* ensure_user_exists without its two lookups: every call inserts a row.
ensure_user_exists_always_new(U, session_token, email, fresh) ==
    [users |-> Append(U, UserRow(fresh, IF email # None THEN lower(email) ELSE None, None,
                                 IF email # None THEN "registered" ELSE "anonymous")),
     id |-> Len(U) + 1, created |-> TRUE]

\* database.ensure_user_exists(session, session_token, email); `fresh` is the
\* value str(uuid.uuid4()) would produce.
ensure_user_exists(U, session_token, email, fresh) ==
    IF email # None /\ UsersByEmail(U, lower(email)) # {}
    THEN [users |-> U, id |-> CHOOSE i \in UsersByEmail(U, lower(email)) : TRUE,
          created |-> FALSE]
    ELSE IF session_token # None /\ UsersByToken(U, session_token) # {}
    THEN [users |-> U, id |-> CHOOSE i \in UsersByToken(U, session_token) : TRUE,
          created |-> FALSE]
    ELSE [users |-> Append(U, UserRow(IF session_token # None THEN session_token ELSE fresh,
                                      IF email # None THEN lower(email) ELSE None,
                                      None,
                                      IF email # None THEN "registered" ELSE "anonymous")),
          id |-> Len(U) + 1, created |-> TRUE]

\* DatabaseConfig.init_database: one default anonymous user in an empty table.
Init ==
    /\ users = <<UserRow(1, None, None, "anonymous")>>
    /\ uuid_count = 1
    /\ chat_sessions = <<>>
    /\ conversations = <<>>
    /\ db_up = TRUE
    /\ created_by = <<>>
    /\ minted = <<>>
    /\ turns = 0
    /\ now = 0
    /\ writers = [w \in 1..MaxWriters |-> Idle]

\* AuthService.get_or_create_anonymous_user(session_token)
GetOrCreateAnonymous(tok) ==
    IF ~db_up
    THEN UNCHANGED vars
    ELSE LET r == ensure_user_exists(users, tok, None, uuid_count + 1) IN
         /\ Len(r.users) <= MaxUsers
         /\ users' = r.users
         /\ uuid_count' = IF r.created /\ tok = None THEN uuid_count + 1 ELSE uuid_count
         /\ minted' = IF tok = None
                      THEN Append(minted, [id |-> r.id, tok |-> r.users[r.id].session_token])
                      ELSE minted
         /\ UNCHANGED <<sessVars, db_up, now, writers>>

\* User.promote_to_registered(email, password, display_name): the method is called
\* by register_user and defined nowhere in the sources; taken from the data-model
\* description: id and session_token persist, email, password_hash and
\* account_type are populated.
promote_to_registered(row, email, password) ==
    [row EXCEPT !.email = lower(email),
                !.password_hash = set_password(password),
                !.account_type = "registered"]

\* The anonymous row register_user upgrades for a presented session_token.
AnonymousByToken(U, tok) ==
    {i \in DOMAIN U : U[i].session_token = tok /\ U[i].account_type = "anonymous"}

\* register_user with the upgrade branch left out: always a new row.
register_user_no_upgrade(U, email, password, session_token, fresh) ==
    IF UsersByEmail(U, lower(email)) # {}
    THEN [users |-> U, id |-> None, status |-> "400", created |-> FALSE]
    ELSE [users |-> Append(U, [UserRow(fresh, lower(email), set_password(password),
                                       "registered") EXCEPT !.is_active = TRUE]),
          id |-> Len(U) + 1, status |-> "200", created |-> TRUE]

\* register_user upgrading whichever row holds the presented session_token.
register_user_any_account(U, email, password, session_token, fresh) ==
    IF UsersByEmail(U, lower(email)) # {}
    THEN [users |-> U, id |-> None, status |-> "400", created |-> FALSE]
    ELSE IF session_token # None /\ UsersByToken(U, session_token) # {}
    THEN LET a == CHOOSE i \in UsersByToken(U, session_token) : TRUE IN
         [users |-> [U EXCEPT ![a] = promote_to_registered(U[a], email, password)],
          id |-> a, status |-> "200", created |-> FALSE]
    ELSE [users |-> Append(U, UserRow(fresh, lower(email), set_password(password),
                                      "registered")),
          id |-> Len(U) + 1, status |-> "200", created |-> TRUE]

\* register_user without the get_user_by_email check and with no unique
\* constraint on users.email behind it.
register_user_no_email_check(U, email, password, session_token, fresh) ==
    IF session_token # None /\ AnonymousByToken(U, session_token) # {}
    THEN LET a == CHOOSE i \in AnonymousByToken(U, session_token) : TRUE IN
         [users |-> [U EXCEPT ![a] = promote_to_registered(U[a], email, password)],
          id |-> a, status |-> "200", created |-> FALSE]
    ELSE [users |-> Append(U, UserRow(fresh, lower(email), set_password(password),
                                      "registered")),
          id |-> Len(U) + 1, status |-> "200", created |-> TRUE]

\* AuthService.register_user(register_data) with the store answering.
register_user(U, email, password, session_token, fresh) ==
    IF UsersByEmail(U, lower(email)) # {}
    THEN [users |-> U, id |-> None, status |-> "400", created |-> FALSE]
    ELSE IF session_token # None /\ AnonymousByToken(U, session_token) # {}
    THEN LET a == CHOOSE i \in AnonymousByToken(U, session_token) : TRUE IN
         [users |-> [U EXCEPT ![a] = promote_to_registered(U[a], email, password)],
          id |-> a, status |-> "200", created |-> FALSE]
    ELSE [users |-> Append(U, [UserRow(fresh, lower(email), set_password(password),
                                       "registered") EXCEPT !.is_active = TRUE]),
          id |-> Len(U) + 1, status |-> "200", created |-> TRUE]

\* POST /auth/register
Register(email, password, tok) ==
    IF ~db_up
    THEN UNCHANGED vars
    ELSE LET r == register_user(users, email, password, tok, uuid_count + 1) IN
         /\ Len(r.users) <= MaxUsers
         /\ users' = r.users
         /\ uuid_count' = IF r.created THEN uuid_count + 1 ELSE uuid_count
         /\ UNCHANGED <<minted, sessVars, db_up, now, writers>>

\* ------------------------------------------------- sessions: store and cache

\* db_service.get_session_messages(session_id, limit = 100)
MessageLimit == 100

Msg(role, content) == [role |-> role, content |-> content]

\* The session state a handler works on: the cache, the chat_sessions table, the
\* creation history, the session id the handler's last call returned and the
\* HTTP status of the answer.
SessState(conv, db, created, ret) ==
    [conv |-> conv, db |-> db, created |-> created, ret |-> ret, status |-> "200"]

Remove(f, k) == [x \in DOMAIN f \ {k} |-> f[x]]

\* str(uuid.uuid4()) for a new session id.
NextSid(S) == Cardinality(DOMAIN S.created) + 1

\* DatabaseService.get_chat_session: None when the row is absent or the query
\* raises SQLAlchemyError.
HasRow(db, sid, up) == up /\ sid \in DOMAIN db

\* DatabaseService.create_chat_session with the store answering; a second row
\* for one session_id violates the unique constraint and changes nothing.
\* ai_context is the column's default, an empty list; message_index lists the
\* message_index column of the session's message rows, in insertion order.
create_chat_session(db, user_id, sid) ==
    IF sid \in DOMAIN db THEN db
    ELSE db @@ (sid :> [user_id |-> user_id, message_count |-> 0, messages |-> <<>>,
                     ai_context |-> <<>>, message_index |-> <<>>])

\* DatabaseService.get_session_messages: at most `limit` rows, oldest first.
get_session_messages(db, sid, up) ==
    IF ~HasRow(db, sid, up) THEN <<>>
    ELSE SubSeq(db[sid].messages, 1,
                IF Len(db[sid].messages) < MessageLimit
                THEN Len(db[sid].messages) ELSE MessageLimit)

\* The message_index of a message row whose insert assigned none.
NoIndex == 0 - 1

\* DatabaseService.add_message: None when the session row is absent or on error.
\* The row is built from chat_session_id, role, content, tokens_used and
\* response_time_ms: no message_index is passed.
add_message(db, sid, m, up) ==
    IF ~HasRow(db, sid, up) THEN db
    ELSE [db EXCEPT ![sid].messages = Append(@, m),
                    ![sid].message_index = Append(@, NoIndex),
                    ![sid].message_count = @ + 1]

\* DatabaseService.clear_chat_session
clear_chat_session(db, sid, up) ==
    IF ~HasRow(db, sid, up) THEN db
    ELSE [db EXCEPT ![sid].messages = <<>>, ![sid].message_index = <<>>,
                    ![sid].message_count = 0]

\* DatabaseService.delete_chat_session: the row and, by cascade, its messages.
delete_chat_session(db, sid, up) ==
    IF ~HasRow(db, sid, up) THEN db ELSE Remove(db, sid)

\* DatabaseService.get_or_create_user(None): the first row with username NULL.
\* No code path sets username, the query has no ORDER BY, and init_database
\* keeps the table non-empty, so any stored row may be the one returned.
get_or_create_user_rows(U) == DOMAIN U

\* db_service.ensure_session_exists_in_db(session_id); `pick` is the row
\* get_or_create_user() returned.  With the store failing, get_chat_session
\* returns None and get_or_create_user raises: the caller logs and goes on.
ensure_session_exists_in_db(db, sid, pick, up) ==
    IF ~up \/ sid \in DOMAIN db THEN db
    ELSE create_chat_session(db, pick, sid)

\* create_session mirroring the session into the store before it fills the
\* cache, and letting the store's exception escape.
create_session_mirror_first(S, user, up) ==
    LET sid == NextSid(S) IN
    IF user # None /\ ~up THEN SessState(S.conv, S.db, S.created, None)
    ELSE SessState(S.conv @@ (sid :> [messages |-> <<>>, user_id |-> user,
                                      chat_session |-> <<>>]),
                   IF user # None THEN create_chat_session(S.db, user, sid) ELSE S.db,
                   S.created @@ (sid :> user),
                   sid)

\* MathTeacherAPI.create_session(user).  chat_session is the conversation
\* engine's object, model.start_chat(history=[]): the turns it holds.
create_session(S, user, up) ==
    LET sid == NextSid(S) IN
    SessState(S.conv @@ (sid :> [messages |-> <<>>, user_id |-> user,
                                 chat_session |-> <<>>]),
              IF up /\ user # None THEN create_chat_session(S.db, user, sid) ELSE S.db,
              S.created @@ (sid :> user),
              sid)

\* The restore branch of ensure_session_exists: the row of `sid` was found, the
\* cache record is created empty and then filled from get_session_messages.
\* `up` is the store's state during that load: if it fails the load returns []
\* and the record stays as created.
restore_session(S, sid, user, up) ==
    SessState(S.conv @@ (sid :> [messages |-> get_session_messages(S.db, sid, up),
                                 user_id |-> user, chat_session |-> <<>>]),
              S.db, S.created, sid)

\* ensure_session_exists replaying the stored messages into the cache record on
\* every call, cached or not.
ensure_session_exists_replay(S, sid, user, up, pick) ==
    IF sid # None /\ sid \in DOMAIN S.conv
    THEN SessState([S.conv EXCEPT ![sid].messages = @ \o get_session_messages(S.db, sid, up)],
                   IF user # None THEN ensure_session_exists_in_db(S.db, sid, pick, up)
                   ELSE S.db,
                   S.created, sid)
    ELSE IF sid # None /\ HasRow(S.db, sid, up)
    THEN SessState(S.conv @@ (sid :> [messages |-> get_session_messages(S.db, sid, up),
                                      user_id |-> user, chat_session |-> <<>>]),
                   S.db, S.created, sid)
    ELSE create_session(S, user, up)

\* MathTeacherAPI.ensure_session_exists(session_id, user)
ensure_session_exists(S, sid, user, up, pick) ==
    IF sid # None /\ sid \in DOMAIN S.conv
    THEN SessState(S.conv,
                   IF user # None THEN ensure_session_exists_in_db(S.db, sid, pick, up)
                   ELSE S.db,
                   S.created, sid)
    ELSE IF sid # None /\ HasRow(S.db, sid, up)
    THEN restore_session(S, sid, user, up)
    ELSE create_session(S, user, up)

\* send_message recording the user message before it calls the engine.
send_message_user_first(S, sid, user, up, pick, engine, n) ==
    LET S1 == ensure_session_exists(S, sid, user, up, pick)
        s  == S1.ret
        S2 == SessState([S1.conv EXCEPT ![s].messages = Append(@, Msg("user", n))],
                        add_message(S1.db, s, Msg("user", n), up),
                        S1.created, s)
    IN  IF engine # "ok" THEN S2
        ELSE SessState(
               [S2.conv EXCEPT ![s].messages = Append(@, Msg("assistant", n)),
                               ![s].chat_session = Append(@, n)],
               add_message(S2.db, s, Msg("assistant", n), up),
               S2.created, s)

\* MathTeacherAPI.send_message(message, session_id, user); `engine` is what the
\* conversation engine does with the call, `n` the content of this turn.
send_message(S, sid, user, up, pick, engine, n) ==
    LET S1 == ensure_session_exists(S, sid, user, up, pick)
        s  == S1.ret
    IN  IF engine # "ok" THEN S1
        ELSE SessState(
               [S1.conv EXCEPT ![s].messages = @ \o <<Msg("user", n), Msg("assistant", n)>>,
                               ![s].chat_session = Append(@, n)],
               add_message(add_message(S1.db, s, Msg("user", n), up),
                           s, Msg("assistant", n), up),
               S1.created, s)

Cur == SessState(conversations, chat_sessions, created_by, None)

Commit(S) ==
    /\ Cardinality(DOMAIN S.created) <= MaxSessions
    /\ conversations' = S.conv
    /\ chat_sessions' = S.db
    /\ created_by' = S.created

\* Identities get_current_user_optional can resolve: none, or an active user
\* (by its session_token, or by an access token issued to it).
ResolvedIdentities == {None} \cup {i \in DOMAIN users : users[i].is_active}

\* Session ids a caller can name: one the server issued, or one it invented.
NameableSids == DOMAIN created_by \cup {UnknownSid}

\* POST /sessions/new.  The handler reads user.id on the dict the dependency
\* returned, which raises after the session was created.
CreateSession(user) ==
    LET S == create_session(Cur, user, db_up) IN
    /\ Commit(S)
    /\ UNCHANGED <<userVars, turns, db_up, now, writers>>

\* POST /sessions/{session_id}/ensure
EnsureSession(sid, user, pick) ==
    LET S == ensure_session_exists(Cur, sid, user, db_up, pick) IN
    /\ Commit(S)
    /\ UNCHANGED <<userVars, turns, db_up, now, writers>>

\* POST /sessions/{session_id}/ensure while the store starts failing between
\* get_chat_session, which found the row, and get_session_messages.
EnsureSessionLoadFails(sid, user) ==
    LET S == restore_session(Cur, sid, user, FALSE) IN
    /\ db_up
    /\ sid \notin DOMAIN conversations
    /\ HasRow(chat_sessions, sid, db_up)
    /\ Commit(S)
    /\ db_up' = FALSE
    /\ UNCHANGED <<userVars, turns, now, writers>>

\* chat_with_teacher answering with the session id of the request.
chat_with_teacher_requested_id(S, sid, user, up, pick, engine, n) ==
    LET S1 == IF sid # None THEN ensure_session_exists(S, sid, user, up, pick)
              ELSE create_session(S, user, up)
        S2 == send_message(S1, S1.ret, user, up, pick, engine, n)
    IN  [state |-> S2,
         status |-> IF engine = "error" \/ user # None THEN "500" ELSE "200",
         session_id |-> IF engine = "error" \/ user # None THEN None ELSE sid]

\* chat_with_teacher(request, user): the session methods it calls and its
\* answer.  A failing engine other than a quota error gives 500 from
\* send_message; for an identified caller the handler reads user.account_type
\* on the dict the dependency returned after the turn was stored, which raises
\* and gives 500 as well.  Otherwise ChatResponse carries the ensured id.
chat_with_teacher(S, sid, user, up, pick, engine, n) ==
    LET S1 == IF sid # None THEN ensure_session_exists(S, sid, user, up, pick)
              ELSE create_session(S, user, up)
        S2 == send_message(S1, S1.ret, user, up, pick, engine, n)
    IN  [state |-> S2,
         status |-> IF engine = "error" \/ user # None THEN "500" ELSE "200",
         session_id |-> IF engine = "error" \/ user # None THEN None ELSE S1.ret]

\* POST /chat
Chat(sid, user, pick, engine) ==
    LET S2 == chat_with_teacher(Cur, sid, user, db_up, pick, engine, turns + 1).state
    IN  /\ engine = "ok" => turns < MaxTurns
        /\ Commit(S2)
        /\ turns' = IF engine = "ok" THEN turns + 1 ELSE turns
        /\ UNCHANGED <<userVars, db_up, now, writers>>

\* GET /history/{session_id}
get_conversation_history(conv, db, sid, user, up) ==
    IF /\ user # None
       /\ HasRow(db, sid, up)
       /\ db[sid].user_id # None
       /\ db[sid].user_id # user
    THEN [status |-> "403", msgs |-> <<>>]
    ELSE IF sid \in DOMAIN conv
    THEN [status |-> "200", msgs |-> conv[sid].messages]
    ELSE IF HasRow(db, sid, up)
    THEN [status |-> "200", msgs |-> get_session_messages(db, sid, up)]
    ELSE [status |-> "404", msgs |-> <<>>]

GetHistory(sid, user) ==
    LET r == get_conversation_history(conversations, chat_sessions, sid, user, db_up) IN
    /\ r.status \in {"200", "403", "404"}
    /\ UNCHANGED vars

\* delete_session removing the cache record and leaving the stored row.
delete_session_cache_only(S, U, sid, user, up) ==
    IF /\ user # None
       /\ U[user].account_type # "anonymous"
       /\ HasRow(S.db, sid, up)
       /\ S.db[sid].user_id # user
    THEN [S EXCEPT !.status = "403"]
    ELSE SessState(IF sid \in DOMAIN S.conv THEN Remove(S.conv, sid) ELSE S.conv,
                   S.db, S.created, None)

\* DELETE /sessions/{session_id}
delete_session(S, U, sid, user, up) ==
    IF /\ user # None
       /\ U[user].account_type # "anonymous"
       /\ HasRow(S.db, sid, up)
       /\ S.db[sid].user_id # user
    THEN [S EXCEPT !.status = "403"]
    ELSE SessState(IF sid \in DOMAIN S.conv THEN Remove(S.conv, sid) ELSE S.conv,
                   delete_chat_session(S.db, sid, up),
                   S.created, None)

DeleteSession(sid, user) ==
    LET S == delete_session(Cur, users, sid, user, db_up) IN
    /\ Commit(S)
    /\ UNCHANGED <<userVars, turns, db_up, now, writers>>

\* POST /sessions/{session_id}/clear.  For a resolved identity the ownership
\* test reads user.account_type on a dict: AttributeError, answered with 500
\* before anything is cleared.
clear_session(S, sid, user, up, pick) ==
    IF user # None THEN [S EXCEPT !.status = "500"]
    ELSE LET S1 == IF sid \notin DOMAIN S.conv
                   THEN ensure_session_exists(S, sid, user, up, pick)
                   ELSE [S EXCEPT !.ret = sid]
             s  == S1.ret
         IN  SessState([S1.conv EXCEPT ![s].messages = <<>>, ![s].chat_session = <<>>],
                       clear_chat_session(S1.db, s, up),
                       S1.created, s)

ClearSession(sid, user, pick) ==
    LET S == clear_session(Cur, sid, user, db_up, pick) IN
    /\ Commit(S)
    /\ UNCHANGED <<userVars, turns, db_up, now, writers>>

\* db_service.sync_in_memory_to_db(conversations); `pick` is the row
\* get_or_create_user() returned.  A cached session without a row gets one owned
\* by `pick`; cached messages past the number already stored are added.  With
\* the store failing the first call raises and nothing is written.
sync_in_memory_to_db(conv, db, pick, up) ==
    IF ~up THEN db
    ELSE [sid \in DOMAIN db \cup DOMAIN conv |->
            IF sid \notin DOMAIN conv THEN db[sid]
            ELSE LET db1 == create_chat_session(db, pick, sid)
                     existing_count == Len(get_session_messages(db1, sid, up))
                     new_messages == SubSeq(conv[sid].messages, existing_count + 1,
                                            Len(conv[sid].messages))
                 IN  [db1[sid] EXCEPT !.messages = @ \o new_messages,
                                      !.message_index =
                                          @ \o [i \in 1..Len(new_messages) |-> NoIndex],
                                      !.message_count = @ + Len(new_messages)]]

\* The process stops and starts again: the cache is a module-level dict.  A
\* graceful stop runs the lifespan shutdown sync first; a kill does not.
Restart(graceful, pick) ==
    /\ conversations' = <<>>
    /\ chat_sessions' = IF graceful /\ conversations # <<>>
                        THEN sync_in_memory_to_db(conversations, chat_sessions, pick, db_up)
                        ELSE chat_sessions
    /\ UNCHANGED <<userVars, created_by, turns, db_up, now, writers>>

\* The store starts or stops raising SQLAlchemyError.
DbToggle ==
    /\ db_up' = ~db_up
    /\ UNCHANGED <<userVars, sessVars, now, writers>>

\* ---------------------------------------------------------- authentication

\* JWT_ACCESS_TOKEN_EXPIRE_MINUTES = 24 * 60, in hours.
JWT_ACCESS_TOKEN_EXPIRE_HOURS == 24
\* JWT_REFRESH_TOKEN_EXPIRE_DAYS = 30, in hours.
JWT_REFRESH_TOKEN_EXPIRE_HOURS == 720
\* User.generate_reset_token: timedelta(hours=1).
RESET_TOKEN_EXPIRE_HOURS == 1

\* AuthService.create_access_token(user_id, email) at time t.  A token is its
\* payload plus whether the HS256 signature is the server's; the email claim is
\* written and never read, and is left out.
create_access_token(user_id, t) ==
    [sub |-> user_id, type |-> "access", exp |-> t + JWT_ACCESS_TOKEN_EXPIRE_HOURS,
     signed |-> TRUE]

\* AuthService.create_refresh_token(user_id) at time t.
create_refresh_token(user_id, t) ==
    [sub |-> user_id, type |-> "refresh", exp |-> t + JWT_REFRESH_TOKEN_EXPIRE_HOURS,
     signed |-> TRUE]

\* AuthService.verify_token: the payload, or HTTPException 401 for a bad
\* signature or an expired token.
verify_token(token, t) ==
    [ok |-> token.signed /\ token.exp > t, payload |-> token]

\* get_user_from_token without the is_active test.
get_user_from_token_any(U, token, t, up) ==
    IF ~verify_token(token, t).ok THEN [id |-> None, raised |-> FALSE]
    ELSE IF ~up THEN [id |-> None, raised |-> TRUE]
    ELSE IF token.sub \in DOMAIN U
    THEN [id |-> token.sub, raised |-> FALSE]
    ELSE [id |-> None, raised |-> FALSE]

\* AuthService.get_user_from_token(token).  ValueError and HTTPException give
\* None; a SQLAlchemyError from the query is not caught and propagates.
get_user_from_token(U, token, t, up) ==
    IF ~verify_token(token, t).ok THEN [id |-> None, raised |-> FALSE]
    ELSE IF ~up THEN [id |-> None, raised |-> TRUE]
    ELSE IF token.sub \in DOMAIN U /\ U[token.sub].is_active
    THEN [id |-> token.sub, raised |-> FALSE]
    ELSE [id |-> None, raised |-> FALSE]

\* validate_session_token answering an unknown token by creating a user for it.
validate_session_token_create(U, session_token, up) ==
    IF ~up THEN [users |-> U, id |-> None]
    ELSE LET r == ensure_user_exists(U, session_token, None, session_token) IN
         [users |-> r.users, id |-> IF r.users[r.id].is_active THEN r.id ELSE None]

\* AuthService.validate_session_token(session_token): the table after the call
\* and the user returned; None on SQLAlchemyError.
validate_session_token(U, session_token, up) ==
    IF ~up \/ UsersByToken(U, session_token) = {} THEN [users |-> U, id |-> None]
    ELSE LET u == CHOOSE i \in UsersByToken(U, session_token) : TRUE IN
         [users |-> U, id |-> IF U[u].is_active THEN u ELSE None]

\* An Authorization header: absent, or a scheme and a token.
NoAuthorization ==
    [scheme |-> "none", token |-> [sub |-> None, type |-> "access", exp |-> 0, signed |-> FALSE]]

\* auth_service.extract_bearer_token: the header starts with 'Bearer '.
extract_bearer_token(authorization) == authorization.scheme = "Bearer"

\* get_current_user_optional trying the session token before the bearer token.
get_current_user_optional_legacy_first(U, authorization, session_token, t, up) ==
    IF session_token # None /\ validate_session_token(U, session_token, up).id # None
    THEN [id |-> validate_session_token(U, session_token, up).id, raised |-> FALSE]
    ELSE IF extract_bearer_token(authorization)
    THEN get_user_from_token(U, authorization.token, t, up)
    ELSE [id |-> None, raised |-> FALSE]

\* auth_service.get_current_user_optional(authorization, session_token)
get_current_user_optional(U, authorization, session_token, t, up) ==
    LET user == IF extract_bearer_token(authorization)
                THEN get_user_from_token(U, authorization.token, t, up)
                ELSE [id |-> None, raised |-> FALSE]
    IN  IF user.raised \/ user.id # None THEN user
        ELSE IF session_token # None
        THEN [id |-> validate_session_token(U, session_token, up).id, raised |-> FALSE]
        ELSE [id |-> None, raised |-> FALSE]

\* auth_service.require_authenticated_user(authorization)
require_authenticated_user(U, authorization, t, up) ==
    IF ~extract_bearer_token(authorization) THEN [id |-> None, status |-> "401"]
    ELSE LET user == get_user_from_token(U, authorization.token, t, up) IN
         IF user.raised THEN [id |-> None, status |-> "500"]
         ELSE IF user.id = None THEN [id |-> None, status |-> "401"]
         ELSE [id |-> user.id, status |-> "200"]

\* POST /auth/logout (logout_user): the Authorization header is not read, no
\* token list is kept and no row is written; the answer is always 200.
logout_user(U, authorization) == [users |-> U, status |-> "200"]

NoTokens == <<>>

\* login_user telling a wrong password from an unknown address.
login_user_tell(U, email, password, remember_me, t, up) ==
    IF ~up THEN [status |-> "500", detail |-> "Login failed", id |-> None,
                 tokens |-> NoTokens, expires_in |-> 0]
    ELSE IF UsersByEmail(U, lower(email)) = {}
    THEN [status |-> "401", detail |-> "Unknown email", id |-> None,
          tokens |-> NoTokens, expires_in |-> 0]
    ELSE [status |-> "401", detail |-> "Invalid email or password", id |-> None,
          tokens |-> NoTokens, expires_in |-> 0]

\* AuthService.login_user(login_data) at time t.
login_user(U, email, password, remember_me, t, up) ==
    IF ~up THEN [status |-> "500", detail |-> "Login failed", id |-> None,
                 tokens |-> NoTokens, expires_in |-> 0]
    ELSE LET found == UsersByEmail(U, lower(email))
             user  == CHOOSE i \in found : TRUE
         IN  IF found = {} \/ ~check_password(U[user].password_hash, password)
             THEN [status |-> "401", detail |-> "Invalid email or password", id |-> None,
                   tokens |-> NoTokens, expires_in |-> 0]
             ELSE IF ~U[user].is_active
             THEN [status |-> "401", detail |-> "Account is deactivated", id |-> None,
                   tokens |-> NoTokens, expires_in |-> 0]
             ELSE [status |-> "200", detail |-> "Login successful", id |-> user,
                   tokens |-> <<create_access_token(user, t), create_refresh_token(user, t)>>,
                   expires_in |-> IF remember_me
                                  THEN JWT_ACCESS_TOKEN_EXPIRE_HOURS * 7 * 3600
                                  ELSE JWT_ACCESS_TOKEN_EXPIRE_HOURS * 3600]

\* AuthService.refresh_access_token(refresh_token) at time t.
refresh_access_token(U, refresh_token, t, up) ==
    IF ~verify_token(refresh_token, t).ok
    THEN [status |-> "401", detail |-> "Invalid token", tokens |-> NoTokens]
    ELSE IF refresh_token.type # "refresh"
    THEN [status |-> "401", detail |-> "Invalid token type", tokens |-> NoTokens]
    ELSE IF ~up
    THEN [status |-> "401", detail |-> "Token refresh failed", tokens |-> NoTokens]
    ELSE IF ~(refresh_token.sub \in DOMAIN U /\ U[refresh_token.sub].is_active)
    THEN [status |-> "401", detail |-> "User not found or inactive", tokens |-> NoTokens]
    ELSE [status |-> "200", detail |-> "",
          tokens |-> <<create_access_token(refresh_token.sub, t),
                       create_refresh_token(refresh_token.sub, t)>>]

\* User.generate_reset_token at time t; `fresh` is str(uuid.uuid4()).
generate_reset_token(row, fresh, t) ==
    [row EXCEPT !.reset_token = fresh,
                !.reset_token_expires = t + RESET_TOKEN_EXPIRE_HOURS]

\* request_password_reset answering False for an address nobody has.
request_password_reset_tell(U, email, fresh, t, up) ==
    IF ~up \/ UsersByEmail(U, lower(email)) = {}
    THEN [users |-> U, ret |-> FALSE]
    ELSE LET user == CHOOSE i \in UsersByEmail(U, lower(email)) : TRUE IN
         [users |-> [U EXCEPT ![user] = generate_reset_token(U[user], fresh, t)],
          ret |-> TRUE]

\* AuthService.request_password_reset(reset_data) at time t.
request_password_reset(U, email, fresh, t, up) ==
    IF ~up THEN [users |-> U, ret |-> FALSE]
    ELSE IF UsersByEmail(U, lower(email)) = {} THEN [users |-> U, ret |-> TRUE]
    ELSE LET user == CHOOSE i \in UsersByEmail(U, lower(email)) : TRUE IN
         [users |-> [U EXCEPT ![user] = generate_reset_token(U[user], fresh, t)],
          ret |-> TRUE]

\* User.clear_reset_token(): called by reset_password and defined nowhere in the
\* sources; taken from the description of the reset: the token is invalidated.
clear_reset_token(row) ==
    [row EXCEPT !.reset_token = None, !.reset_token_expires = None]

\* The reset-token lookup without the expiry filter.
UsersByResetToken_no_expiry(U, token, t) ==
    {i \in DOMAIN U : U[i].reset_token # None /\ U[i].reset_token = token}

\* The rows reset_password finds for a presented token at time t.
UsersByResetToken(U, token, t) ==
    {i \in DOMAIN U : /\ U[i].reset_token # None
                      /\ U[i].reset_token = token
                      /\ U[i].reset_token_expires > t}

\* reset_password leaving the reset token on the row.
reset_password_keep_token(U, token, new_password, t, up) ==
    IF ~up THEN [users |-> U, status |-> "500"]
    ELSE IF UsersByResetToken(U, token, t) = {} THEN [users |-> U, status |-> "400"]
    ELSE LET user == CHOOSE i \in UsersByResetToken(U, token, t) : TRUE IN
         [users |-> [U EXCEPT ![user].password_hash = set_password(new_password)],
          status |-> "200"]

\* AuthService.reset_password(reset_data) at time t.
reset_password(U, token, new_password, t, up) ==
    IF ~up THEN [users |-> U, status |-> "500"]
    ELSE IF UsersByResetToken(U, token, t) = {} THEN [users |-> U, status |-> "400"]
    ELSE LET user == CHOOSE i \in UsersByResetToken(U, token, t) : TRUE IN
         [users |-> [U EXCEPT ![user] =
                        clear_reset_token([U[user] EXCEPT
                            !.password_hash = set_password(new_password)])],
          status |-> "200"]

\* AuthService.deactivate_account(user_id)
deactivate_account(U, user_id, up) ==
    IF ~up THEN [users |-> U, status |-> "500"]
    ELSE IF user_id \notin DOMAIN U THEN [users |-> U, status |-> "404"]
    ELSE [users |-> [U EXCEPT ![user_id].is_active = FALSE], status |-> "200"]

\* DatabaseService.get_or_create_user(session_token) with the store answering;
\* `pick` is the row the unordered .first() of the no-token query returns.
get_or_create_user(U, session_token, fresh, pick) ==
    IF session_token # None /\ UsersByToken(U, session_token) # {}
    THEN [users |-> U, id |-> CHOOSE i \in UsersByToken(U, session_token) : TRUE,
          created |-> FALSE]
    ELSE IF session_token = None /\ pick \in get_or_create_user_rows(U)
    THEN [users |-> U, id |-> pick, created |-> FALSE]
    ELSE [users |-> Append(U, UserRow(IF session_token # None THEN session_token ELSE fresh,
                                      None, None, "anonymous")),
          id |-> Len(U) + 1, created |-> TRUE]

\* Tokens a caller can present: none, one it invented, or a stored one.
PresentableTokens ==
    {None} \cup ForgedTokens \cup {users[i].session_token : i \in DOMAIN users}

StoredTokens == {None} \cup {users[i].session_token : i \in DOMAIN users}

\* Identity operations in full, with sessions that users own.
NextUsers ==
    \/ \E tok \in PresentableTokens : GetOrCreateAnonymous(tok)
    \/ \E em \in EmailInputs, pw \in Passwords, tok \in PresentableTokens :
          Register(em, pw, tok)
    \/ \E sid \in NameableSids, user \in ResolvedIdentities, pick \in get_or_create_user_rows(users) :
          EnsureSession(sid, user, pick) /\ Cardinality(DOMAIN created_by') <= MaxOwned
    \/ DbToggle

SpecUsers == Init /\ [][NextUsers]_vars

\* Session operations in full, with the identities they are called by.
Next ==
    \/ GetOrCreateAnonymous(None) /\ Len(users') <= MaxCallers
    \/ \E em \in EmailInputs, pw \in Passwords, tok \in StoredTokens :
          Register(em, pw, tok) /\ Len(users') <= MaxCallers
    \/ \E user \in ResolvedIdentities : CreateSession(user)
    \/ \E sid \in NameableSids, user \in ResolvedIdentities, pick \in get_or_create_user_rows(users) :
          EnsureSession(sid, user, pick)
    \/ \E sid \in NameableSids \cup {None}, user \in ResolvedIdentities,
          pick \in get_or_create_user_rows(users), engine \in {"ok", "quota", "error"} :
          Chat(sid, user, pick, engine)
    \/ \E sid \in NameableSids, user \in ResolvedIdentities : GetHistory(sid, user)
    \/ \E sid \in NameableSids, user \in ResolvedIdentities : DeleteSession(sid, user)
    \/ \E sid \in NameableSids, user \in ResolvedIdentities, pick \in get_or_create_user_rows(users) :
          ClearSession(sid, user, pick)
    \/ \E graceful \in BOOLEAN, pick \in get_or_create_user_rows(users) : Restart(graceful, pick)
    \/ DbToggle

Spec == Init /\ [][Next]_vars

\* database.ensure_user_exists(session, session_token, email) called as the
\* module exports it, with either credential or none.
EnsureUserExists(tok, em) ==
    LET r == ensure_user_exists(users, tok, em, uuid_count + 1) IN
    /\ db_up
    /\ Len(r.users) <= MaxUsers
    /\ users' = r.users
    /\ uuid_count' = IF r.created /\ tok = None THEN uuid_count + 1 ELSE uuid_count
    /\ UNCHANGED <<minted, sessVars, db_up, now, writers>>

\* Every path that writes a user row: the service calls and the database helper.
NextDatabase ==
    \/ \E tok \in PresentableTokens : GetOrCreateAnonymous(tok)
    \/ \E em \in AuthEmails, pw \in Passwords, tok \in PresentableTokens :
          Register(em, pw, tok)
    \/ \E tok \in PresentableTokens, em \in AuthEmails \cup {None} :
          EnsureUserExists(tok, em)
    \/ DbToggle

SpecDatabase == Init /\ [][NextDatabase]_vars

\* The session state after the default user completed turns i..k on session 1
\* of state S, the store answering throughout.
RECURSIVE TurnsFrom(_, _, _)
TurnsFrom(S, i, k) ==
    IF i > k THEN S
    ELSE LET T == send_message(S, 1, 1, TRUE, 1, "ok", i) IN
         IF T.ret = 1 THEN TurnsFrom(T, i + 1, k) ELSE T

\* The session state after the default user created a session and completed k
\* turns on it.
AfterTurns(k) ==
    TurnsFrom(create_session(SessState(<<>>, <<>>, <<>>, None), 1, TRUE), 1, k)

\* Conversation lengths examined: none, one turn, and one turn short of and at
\* the bound (100 and 102 messages around the page size of 100).
StoredTurnsInputs == {0, 1, MaxStoredTurns - 1, MaxStoredTurns}

\* A long conversation: the state Init, create_session and k turns of
\* send_message lead to.
InitHistory ==
    \E k \in StoredTurnsInputs :
        /\ users = <<UserRow(1, None, None, "anonymous")>>
        /\ uuid_count = 1
        /\ chat_sessions = AfterTurns(k).db
        /\ conversations = AfterTurns(k).conv
        /\ created_by = AfterTurns(k).created
        /\ db_up = TRUE
        /\ minted = <<>>
        /\ turns = k
        /\ now = 0
        /\ writers = [w \in 1..MaxWriters |-> Idle]

\* Long conversations: their owner signing up with its session token (the
\* promotion in place), restarts, ensure, chat turns with the engine answering
\* or failing, history reads and deletion.
NextHistory ==
    \/ \E em \in EmailInputs, pw \in Passwords, tok \in StoredTokens :
          Register(em, pw, tok) /\ Len(users') = Len(users)
    \/ \E sid \in NameableSids, user \in ResolvedIdentities, pick \in get_or_create_user_rows(users) :
          EnsureSession(sid, user, pick)
    \/ \E sid \in NameableSids \cup {None}, user \in ResolvedIdentities,
          pick \in get_or_create_user_rows(users), engine \in {"ok", "quota", "error"} :
          Chat(sid, user, pick, engine)
    \/ \E sid \in NameableSids, user \in ResolvedIdentities : EnsureSessionLoadFails(sid, user)
    \/ \E sid \in NameableSids, user \in ResolvedIdentities : GetHistory(sid, user)
    \/ \E sid \in NameableSids, user \in ResolvedIdentities : DeleteSession(sid, user)
    \/ \E graceful \in BOOLEAN, pick \in get_or_create_user_rows(users) : Restart(graceful, pick)
    \/ DbToggle

SpecHistory == InitHistory /\ [][NextHistory]_vars

\* ------------------------------------------------ concurrent message writers

\* The two functions that insert a message row: database.add_message_to_session
\* ("helper") and DatabaseService.add_message ("service").  Each runs in a
\* database session of its own and takes two steps that other sessions can come
\* between: the query that loads the chat session and, for the helper, counts
\* its messages; then the insert, the write of message_count and the commit.
\* No lock, SELECT ... FOR UPDATE or unique constraint on (chat_session_id,
\* message_index) orders two writers.
BeginWrite(w, kind, sid) ==
    /\ db_up
    /\ writers[w].pc = "idle"
    /\ sid \in DOMAIN chat_sessions
    /\ Len(chat_sessions[sid].messages) < MaxMessages
    /\ writers' = [writers EXCEPT ![w] =
                      [pc |-> "read", kind |-> kind, sid |-> sid,
                       read |-> IF kind = "helper"
                                THEN Len(chat_sessions[sid].messages)
                                ELSE chat_sessions[sid].message_count]]
    /\ UNCHANGED <<userVars, sessVars, db_up, now>>

\* The second step: the row is inserted with what the first step read.
FinishWrite(w) ==
    LET wr == writers[w] IN
    /\ wr.pc = "read"
    /\ writers' = [writers EXCEPT ![w] = Idle]
    /\ chat_sessions' =
          IF ~db_up \/ wr.sid \notin DOMAIN chat_sessions THEN chat_sessions
          ELSE [chat_sessions EXCEPT
                   ![wr.sid].messages = Append(@, Msg("user", turns + 1)),
                   ![wr.sid].message_index =
                       Append(@, IF wr.kind = "helper" THEN wr.read ELSE NoIndex),
                   ![wr.sid].message_count = wr.read + 1]
    /\ UNCHANGED <<userVars, conversations, created_by, turns, db_up, now>>

\* Message inserts by concurrent database sessions on the sessions of a user.
NextWriters ==
    \/ \E user \in ResolvedIdentities \ {None} :
          CreateSession(user) /\ Cardinality(DOMAIN created_by') <= MaxOwned
    \/ \E w \in 1..MaxWriters, kind \in {"helper", "service"}, sid \in DOMAIN chat_sessions :
          BeginWrite(w, kind, sid)
    \/ \E w \in 1..MaxWriters : FinishWrite(w)
    \/ DbToggle

SpecWriters == Init /\ [][NextWriters]_vars

\* ------------------------------------------------ authentication endpoints

\* Bearer tokens a caller can present: any payload with a signature that is not
\* the server's, and the server-signed tokens of either type, expired or not.
\* The server signs tokens in register_user, login_user and refresh_access_token
\* only, so a signed token names a registered user.
JwtInputs ==
    {token \in [sub : 1..(Len(users) + 1), type : {"access", "refresh"},
                exp : {now, now + 1}, signed : BOOLEAN] :
        token.signed => /\ token.sub \in DOMAIN users
                        /\ users[token.sub].account_type = "registered"}

AuthorizationInputs ==
    {NoAuthorization} \cup [scheme : {"Bearer", "Basic"}, token : JwtInputs]

\* Reset tokens a caller can present: any uuid drawn so far, or an invented one.
ResetTokenInputs == (1..uuid_count) \cup ForgedTokens

\* POST /auth/login: a request is answered and writes nothing the model keeps
\* (last_login and last_active only).
Login ==
    IF \E email \in AuthEmails, password \in PasswordInputs, remember_me \in BOOLEAN :
          login_user(users, email, password, remember_me, now, db_up).status
              \in {"200", "401", "500"}
    THEN UNCHANGED vars
    ELSE FALSE

\* POST /auth/refresh: tokens are stateless, nothing is stored.
Refresh ==
    IF \E token \in JwtInputs :
          refresh_access_token(users, token, now, db_up).status \in {"200", "401"}
    THEN UNCHANGED vars
    ELSE FALSE

\* get_user_from_request: the identity of a request from its two headers.
Authenticate ==
    IF \E authorization \in AuthorizationInputs, session_token \in PresentableTokens :
          get_current_user_optional(users, authorization, session_token, now, db_up).id
              \in {None} \cup DOMAIN users
    THEN UNCHANGED vars
    ELSE FALSE

\* POST /auth/logout
Logout ==
    \E authorization \in AuthorizationInputs :
        /\ users' = logout_user(users, authorization).users
        /\ UNCHANGED <<uuid_count, minted, sessVars, db_up, now, writers>>

\* POST /auth/validate-session
ValidateSession(session_token) ==
    /\ users' = validate_session_token(users, session_token, db_up).users
    /\ UNCHANGED <<uuid_count, minted, sessVars, db_up, now, writers>>

\* POST /auth/password-reset
RequestPasswordReset(email) ==
    LET r == request_password_reset(users, email, uuid_count + 1, now, db_up) IN
    /\ uuid_count < MaxUuid
    /\ users' = r.users
    /\ uuid_count' = IF r.users # users THEN uuid_count + 1 ELSE uuid_count
    /\ UNCHANGED <<minted, sessVars, db_up, now, writers>>

\* POST /auth/password-reset/confirm
ResetPassword(token, new_password) ==
    /\ users' = reset_password(users, token, new_password, now, db_up).users
    /\ UNCHANGED <<uuid_count, minted, sessVars, db_up, now, writers>>

\* AuthService.deactivate_account(user_id)
Deactivate(user_id) ==
    /\ users' = deactivate_account(users, user_id, db_up).users
    /\ UNCHANGED <<uuid_count, minted, sessVars, db_up, now, writers>>

\* An hour passes.
Tick ==
    /\ now < MaxClock
    /\ now' = now + 1
    /\ UNCHANGED <<userVars, sessVars, db_up, writers>>

NextAuth ==
    \/ GetOrCreateAnonymous(None) /\ Len(users') <= MaxCallers /\ uuid_count' <= MaxUuid
    \/ \E em \in AuthEmails, pw \in Passwords, tok \in StoredTokens :
          Register(em, pw, tok) /\ Len(users') <= MaxCallers /\ uuid_count' <= MaxUuid
    \/ Login
    \/ Refresh
    \/ Authenticate
    \/ Logout
    \/ \E tok \in PresentableTokens : ValidateSession(tok)
    \/ \E em \in AuthEmails : RequestPasswordReset(em)
    \/ \E token \in ResetTokenInputs, pw \in PasswordInputs : ResetPassword(token, pw)
    \/ \E user_id \in DOMAIN users : Deactivate(user_id)
    \/ Tick
    \/ DbToggle

SpecAuth == Init /\ [][NextAuth]_vars

\* ------------------------------------------------------------------ claims

SessionExists(sid) == sid \in DOMAIN conversations \/ sid \in DOMAIN chat_sessions

Registered(u) == u # None /\ users[u].account_type # "anonymous"
Anonymous(u) == u # None /\ users[u].account_type = "anonymous"

\* C1: the calls of get_or_create_anonymous_user with no token made so far each
\* returned a stored user of its own: the returned ids are pairwise distinct, the
\* returned session_tokens are pairwise distinct, each returned token is the one
\* stored on the returned row, and no call returned the row that was there
\* before any call.
C1_NoTokenCallsMintDistinctUsers ==
    /\ \A i, j \in DOMAIN minted :
          i # j => minted[i].id # minted[j].id /\ minted[i].tok # minted[j].tok
    /\ \A i \in DOMAIN minted :
          /\ minted[i].id \in DOMAIN users
          /\ minted[i].id # 1
          /\ users[minted[i].id].session_token = minted[i].tok

\* Two calls with no token have returned, with other anonymous rows in the table.
C1_Witness ==
    /\ Len(minted) >= 2
    /\ \E i \in DOMAIN users :
          users[i].account_type = "anonymous" /\ \A k \in DOMAIN minted : minted[k].id # i

\* C2: a call of get_or_create_anonymous_user with a token that no stored user
\* holds adds one user, and the session_token stored on it (and returned) is not
\* the presented token.
C2_UnknownTokenIsReplaced ==
    [][\A t \in ForgedTokens :
          (db_up /\ UsersByToken(users, t) = {} /\ GetOrCreateAnonymous(t))
          => /\ Len(users') = Len(users) + 1
             /\ users'[Len(users')].session_token # t]_vars

\* C3: for a cached session created by identity A, ensure_session_exists called
\* by another resolved identity B returns a session id other than that session's
\* and leaves the session's cache record as it was.
C3_CachedSessionOfAnotherIdentityNotReused ==
    \A sid \in DOMAIN conversations, B \in ResolvedIdentities \ {None}, pick \in DOMAIN users :
        (created_by[sid] # None /\ created_by[sid] # B)
        => LET S == ensure_session_exists(Cur, sid, B, db_up, pick) IN
           /\ S.ret # sid
           /\ S.conv[sid] = conversations[sid]

\* C4: for every session in the cache or in the chat_sessions table, the history
\* request made with no identity is answered 403 and carries no message.
C4_HistoryDeniedWithoutIdentity ==
    \A sid \in DOMAIN conversations \cup DOMAIN chat_sessions :
        LET r == get_conversation_history(conversations, chat_sessions, sid, None, db_up) IN
        r.status = "403" /\ r.msgs = <<>>

\* C5: for every session created by identity A and every other resolved identity
\* B, the history request of B is never answered with messages of that session.
C5_HistoryNotReturnedToAnotherIdentity ==
    \A sid \in DOMAIN created_by, B \in ResolvedIdentities \ {None} :
        (created_by[sid] # None /\ created_by[sid] # B)
        => LET r == get_conversation_history(conversations, chat_sessions, sid, B, db_up) IN
           ~(r.status = "200" /\ r.msgs # <<>>)

\* C6: a clear or delete request on an existing session that an identity created,
\* made by any other caller (no identity, or another user), is answered 403 and
\* changes neither the cache nor the chat_sessions table.
C6_ClearAndDeleteDeniedToNonOwner ==
    [][\A sid \in DOMAIN created_by, B \in ResolvedIdentities, pick \in DOMAIN users :
          (/\ SessionExists(sid)
           /\ created_by[sid] # None
           /\ B # created_by[sid]
           /\ (DeleteSession(sid, B) \/ ClearSession(sid, B, pick)))
          => /\ conversations' = conversations
             /\ chat_sessions' = chat_sessions
             /\ (DeleteSession(sid, B) => delete_session(Cur, users, sid, B, db_up).status = "403")
             /\ (ClearSession(sid, B, pick) => clear_session(Cur, sid, B, db_up, pick).status = "403")]_vars

\* C7: in every state the user_id recorded for a session that was created by an
\* identity, in its cache record and in its chat_sessions row, is that identity.
C7_SessionOwnerNeverChanges ==
    \A sid \in DOMAIN created_by :
        created_by[sid] # None =>
        /\ sid \in DOMAIN conversations => conversations[sid].user_id = created_by[sid]
        /\ sid \in DOMAIN chat_sessions => chat_sessions[sid].user_id = created_by[sid]

\* C8: ensure_session_exists called by a registered identity B on a session that
\* is not cached and whose chat_sessions row has another user_id does not put
\* the session into the cache and returns another session id.
C8_ForeignDurableSessionNotRestored ==
    [][\A sid \in DOMAIN created_by, B \in ResolvedIdentities, pick \in DOMAIN users :
          (/\ Registered(B)
           /\ sid \notin DOMAIN conversations
           /\ HasRow(chat_sessions, sid, db_up)
           /\ chat_sessions[sid].user_id # B
           /\ EnsureSession(sid, B, pick))
          => /\ sid \notin DOMAIN conversations'
             /\ ensure_session_exists(Cur, sid, B, db_up, pick).ret # sid]_vars

\* C9: ensure_session_exists called by an anonymous identity on a session that is
\* only in the chat_sessions table never puts it into the cache, whoever owns the
\* row, and returns another session id.
C9_AnonymousNeverRestoresDurableSession ==
    [][\A sid \in DOMAIN created_by, B \in ResolvedIdentities, pick \in DOMAIN users :
          (/\ Anonymous(B)
           /\ sid \notin DOMAIN conversations
           /\ HasRow(chat_sessions, sid, db_up)
           /\ EnsureSession(sid, B, pick))
          => /\ sid \notin DOMAIN conversations'
             /\ ensure_session_exists(Cur, sid, B, db_up, pick).ret # sid]_vars

\* C10: a successful register call that presents the session_token of an
\* anonymous user A (e-mail not taken, store answering) adds no user; the user
\* returned is A, with A's session_token and account_type registered; every
\* session whose user_id was A before the call, in the cache or in the table,
\* has user_id A after it.
C10_RegisterPromotesInPlace ==
    [][\A em \in EmailInputs, pw \in Passwords, tok \in StoredTokens \ {None} :
          (/\ db_up
           /\ AnonymousByToken(users, tok) # {}
           /\ UsersByEmail(users, lower(em)) = {}
           /\ Register(em, pw, tok))
          => LET a == CHOOSE i \in AnonymousByToken(users, tok) : TRUE
                 r == register_user(users, em, pw, tok, uuid_count + 1)
             IN  /\ Len(users') = Len(users)
                 /\ r.status = "200" /\ r.id = a
                 /\ users'[a].session_token = tok
                 /\ users'[a].account_type = "registered"
                 /\ users'[a].email = lower(em)
                 /\ users'[a].password_hash # None
                 /\ \A s \in DOMAIN chat_sessions :
                       chat_sessions[s].user_id = a
                       => s \in DOMAIN chat_sessions' /\ chat_sessions'[s].user_id = a
                 /\ \A s \in DOMAIN conversations :
                       conversations[s].user_id = a
                       => s \in DOMAIN conversations' /\ conversations'[s].user_id = a]_vars

\* A user minted as anonymous is now registered under its minted id and token,
\* and sessions in the cache and in the table carry its id.
C10_Witness ==
    \E k \in DOMAIN minted :
        /\ users[minted[k].id].account_type = "registered"
        /\ users[minted[k].id].session_token = minted[k].tok
        /\ \E s \in DOMAIN chat_sessions : chat_sessions[s].user_id = minted[k].id
        /\ \E s \in DOMAIN conversations : conversations[s].user_id = minted[k].id

\* C11: no step changes a user's account_type from registered to anything
\* else, and a successful register call presenting the session_token of a
\* registered user leaves that user's row (id, email, password_hash) as it was
\* and returns a new user with the new address.
C11_PromotionIsOneWay ==
    [][/\ \A u \in DOMAIN users :
             users[u].account_type = "registered"
             => u \in DOMAIN users' /\ users'[u].account_type = "registered"
       /\ \A em \in AuthEmails, pw \in Passwords, tok \in StoredTokens \ {None} :
             (/\ db_up
              /\ UsersByEmail(users, lower(em)) = {}
              /\ \E u \in UsersByToken(users, tok) : users[u].account_type = "registered"
              /\ Register(em, pw, tok))
             => LET u == CHOOSE i \in UsersByToken(users, tok) : TRUE
                    r == register_user(users, em, pw, tok, uuid_count + 1)
                IN  /\ users'[u] = users[u]
                    /\ Len(users') = Len(users) + 1
                    /\ r.id = Len(users) + 1 /\ r.id # u
                    /\ users'[r.id].email = lower(em)
                    /\ users'[r.id].account_type = "registered"]_vars

\* The default anonymous user was promoted, and a second registered user with
\* another address and another session_token stands beside it.
C11_Witness ==
    /\ Len(users) = 2
    /\ users[1].account_type = "registered" /\ users[1].email # None
    /\ users[2].account_type = "registered" /\ users[2].email # users[1].email
    /\ users[2].session_token # users[1].session_token

\* C12: when ensure_session_exists_in_db gives a cached session its missing
\* chat_sessions row, the user it obtains from get_or_create_user() with no
\* credential is a newly minted one: the users table grows by one row and the
\* new session row belongs to that row, not to a user already stored.
C12_NoCredentialLookupMints ==
    [][\A sid \in DOMAIN conversations, user \in ResolvedIdentities \ {None},
          pick \in get_or_create_user_rows(users) :
          (/\ db_up
           /\ sid \notin DOMAIN chat_sessions
           /\ EnsureSession(sid, user, pick))
          => /\ get_or_create_user(users, None, uuid_count + 1, pick).created
             /\ Len(users') = Len(users) + 1
             /\ chat_sessions'[sid].user_id \notin DOMAIN users]_vars

\* C13: validate_session_token leaves the users table as it found it for every
\* presented token, and for a token no stored user holds it returns no user.
C13_ValidateNeverCreates ==
    \A tok \in PresentableTokens \ {None} :
        LET r == validate_session_token(users, tok, db_up) IN
        /\ r.users = users
        /\ UsersByToken(users, tok) = {} => r.id = None

\* Two users are stored, the store answers, and a token none of them holds can
\* be presented.
C13_Witness ==
    /\ Len(users) = 2
    /\ db_up
    /\ \E tok \in PresentableTokens \ {None} : UsersByToken(users, tok) = {}

\* C14: when get_or_create_anonymous_user creates a user, the token it returns
\* resolves back to that user right after the call: validate_session_token
\* returns the id returned at creation, get_or_create_anonymous_user called
\* with the token returns the same id, and neither call adds a users row.
C14_AnonymousTokenRoundTrip ==
    [][\A tok \in PresentableTokens :
          (/\ db_up
           /\ ensure_user_exists(users, tok, None, uuid_count + 1).created
           /\ GetOrCreateAnonymous(tok))
          => LET r == ensure_user_exists(users, tok, None, uuid_count + 1)
                 token == r.users[r.id].session_token
                 v == validate_session_token(users', token, db_up')
                 g == ensure_user_exists(users', token, None, uuid_count' + 1)
             IN  /\ v.id = r.id /\ v.users = users'
                 /\ g.id = r.id /\ g.users = users' /\ ~g.created]_vars

\* A user was created without a token and another one for an invented token.
C14_Witness ==
    /\ db_up
    /\ Len(minted) >= 1
    /\ \E i \in DOMAIN users : users[i].session_token \in ForgedTokens

\* C15: every presentable token whose type is not refresh is rejected by
\* refresh_access_token, and no presentable token whose type is refresh yields a
\* user from get_user_from_token or require_authenticated_user.
C15_TokenTypesNotInterchangeable ==
    \A token \in JwtInputs :
        /\ token.type # "refresh"
           => refresh_access_token(users, token, now, db_up).status # "200"
        /\ token.type = "refresh"
           => /\ get_user_from_token(users, token, now, db_up).id = None
              /\ require_authenticated_user(users, [scheme |-> "Bearer", token |-> token],
                                            now, db_up).id = None

\* C16: a user whose is_active flag is false stays inactive, and in every state
\* with such a user none of its credentials yields it: no server-signed token
\* naming it resolves or refreshes, its session_token does not validate,
\* neither header resolves it, and login with its address fails for every
\* password.
C16_InactiveUserNeverResolved ==
    /\ [][\A u \in DOMAIN users : ~users[u].is_active => ~users'[u].is_active]_vars
    /\ [](\A u \in DOMAIN users :
             ~users[u].is_active
             => /\ \A token \in [sub : {u}, type : {"access", "refresh"},
                                  exp : {now, now + 1}, signed : BOOLEAN] :
                      token \in JwtInputs
                      => /\ get_user_from_token(users, token, now, db_up).id = None
                         /\ refresh_access_token(users, token, now, db_up).status # "200"
                         /\ get_current_user_optional(
                                users, [scheme |-> "Bearer", token |-> token],
                                users[u].session_token, now, db_up).id = None
                /\ validate_session_token(users, users[u].session_token, db_up).id = None
                /\ \A em \in AuthEmails, pw \in PasswordInputs, rm \in BOOLEAN :
                      lower(em) = users[u].email
                      => login_user(users, em, pw, rm, now, db_up).status # "200")

\* A registered user with a password has been deactivated and the store answers.
C16_Witness ==
    /\ db_up
    /\ \E u \in DOMAIN users :
          /\ ~users[u].is_active
          /\ users[u].account_type = "registered"
          /\ users[u].password_hash # None

C18_LoginDoesNotRevealAddresses ==
    \A em \in AuthEmails, pw \in PasswordInputs, rm \in BOOLEAN :
        LET found == UsersByEmail(users, lower(em))
            u == CHOOSE i \in found : TRUE
            without == SelectSeq(users, LAMBDA row : row.email # lower(em))
            r == login_user(users, em, pw, rm, now, db_up)
        IN  (found # {} /\ ~check_password(users[u].password_hash, pw))
            => /\ r.status # "200"
               /\ r = login_user(without, em, pw, rm, now, db_up)
               /\ \A other \in AuthEmails :
                     UsersByEmail(users, lower(other)) = {}
                     => r = login_user(users, other, pw, rm, now, db_up)

\* A user with an address and a password is stored, some typed password is not
\* its password, and some typed address belongs to nobody.
C18_Witness ==
    /\ \E u \in DOMAIN users, pw \in PasswordInputs :
          /\ users[u].email # None
          /\ users[u].password_hash # None
          /\ ~check_password(users[u].password_hash, pw)
    /\ \E other \in AuthEmails : UsersByEmail(users, lower(other)) = {}

\* C19: request_password_reset returns the same value for an address whether or
\* not a user has it; when no user has it the users table is unchanged; when a
\* user has it (store answering) that user alone gets a new reset token with an
\* expiry in the future, and nothing else on any row changes.
C19_ResetRequestDoesNotRevealAddresses ==
    \A em \in AuthEmails :
        LET found == UsersByEmail(users, lower(em))
            u == CHOOSE i \in found : TRUE
            without == SelectSeq(users, LAMBDA row : row.email # lower(em))
            r == request_password_reset(users, em, uuid_count + 1, now, db_up)
            r0 == request_password_reset(without, em, uuid_count + 1, now, db_up)
        IN  /\ r.ret = r0.ret
            /\ r0.users = without
            /\ found = {} => r.users = users
            /\ (found # {} /\ db_up)
               => /\ r.ret = TRUE
                  /\ r.users[u].reset_token = uuid_count + 1
                  /\ r.users[u].reset_token_expires > now
                  /\ r.users = [users EXCEPT
                                   ![u].reset_token = r.users[u].reset_token,
                                   ![u].reset_token_expires = r.users[u].reset_token_expires]

\* A reset was requested for a stored user (it carries a live reset token) and
\* some typed address belongs to nobody.
C19_Witness ==
    /\ \E u \in DOMAIN users :
          users[u].reset_token # None /\ users[u].reset_token_expires > now
    /\ \E other \in AuthEmails : UsersByEmail(users, lower(other)) = {}

\* C20: (a) a reset token that is not accepted (never issued as one, used,
\* replaced or expired) is not accepted after any step; (b) after a successful
\* reset_password(token, p) the user's password is p, and a second
\* reset_password with the same token answers 400 for every password and changes
\* nothing; (c) after request_password_reset for a user, the token the user had
\* before is not accepted and the new one is accepted for that user alone.
C20_ResetTokenSingleUse ==
    [][/\ \A token \in ResetTokenInputs :
             UsersByResetToken(users, token, now) = {}
             => UsersByResetToken(users', token, now') = {}
       /\ \A token \in ResetTokenInputs, p \in PasswordInputs :
             (/\ db_up
              /\ UsersByResetToken(users, token, now) # {}
              /\ ResetPassword(token, p))
             => LET u == CHOOSE i \in UsersByResetToken(users, token, now) : TRUE IN
                /\ reset_password(users, token, p, now, db_up).status = "200"
                /\ check_password(users'[u].password_hash, p)
                /\ \A p2 \in PasswordInputs :
                      LET again == reset_password(users', token, p2, now', db_up') IN
                      again.status = "400" /\ again.users = users'
       /\ \A em \in AuthEmails :
             (/\ db_up
              /\ UsersByEmail(users, lower(em)) # {}
              /\ RequestPasswordReset(em))
             => LET u == CHOOSE i \in UsersByEmail(users, lower(em)) : TRUE
                    old == users[u].reset_token
                IN  /\ users'[u].reset_token # old
                    /\ old # None => UsersByResetToken(users', old, now') = {}
                    /\ UsersByResetToken(users', users'[u].reset_token, now') = {u}]_vars

\* A password was reset to one nobody registers with and the token is gone,
\* while another reset token is live in the table.
C20_Witness ==
    /\ \E u \in DOMAIN users :
          /\ users[u].password_hash = set_password(2)
          /\ users[u].reset_token = None
    /\ \E v \in DOMAIN users : UsersByResetToken(users, users[v].reset_token, now) = {v}

\* C21: with the store answering, reset_password with the token a user holds,
\* presented at a time at or after that token's reset_token_expires, answers 400
\* "Invalid or expired reset token" for every new password and leaves every
\* user row (password_hash and reset_token included) as it was.
C21_ExpiredResetTokenRejected ==
    db_up =>
    \A u \in DOMAIN users, p \in PasswordInputs :
        (users[u].reset_token # None /\ now >= users[u].reset_token_expires)
        => LET r == reset_password(users, users[u].reset_token, p, now, db_up) IN
           /\ r.status = "400"
           /\ r.users = users

\* A user holds a reset token whose expiry time has been reached, and the store
\* answers.
C21_Witness ==
    /\ db_up
    /\ \E u \in DOMAIN users :
          /\ users[u].reset_token # None
          /\ now >= users[u].reset_token_expires
          /\ users[u].password_hash # None

C23_AccountTypeInvariant ==
    \A u \in DOMAIN users :
        /\ users[u].account_type = "anonymous" => users[u].email = None
        /\ users[u].account_type = "registered" => users[u].password_hash # None

\* C24: in every reachable state each session, cached or stored, carries a
\* non-null user_id, sessions created by a caller with no resolved identity
\* included.
C24_EverySessionHasOwner ==
    /\ \A sid \in DOMAIN conversations : conversations[sid].user_id # None
    /\ \A sid \in DOMAIN chat_sessions : chat_sessions[sid].user_id # None

\* C25: whenever a step gives a chat_sessions row to a session that is in the
\* cache and had no row, the row's user_id is the identity that created the
\* cached session.
C25_RowOfCachedSessionOwnedByCreator ==
    [][\A sid \in DOMAIN conversations :
          (/\ created_by[sid] # None
           /\ sid \notin DOMAIN chat_sessions
           /\ sid \in DOMAIN chat_sessions')
          => chat_sessions'[sid].user_id = created_by[sid]]_vars

\* C26: for a session S that is cached, or stored with the store answering, and
\* the identity A that created it, ensure_session_exists(S, A) called twice in a
\* row returns S both times, and the cache and the chat_sessions table after the
\* second call are those after the first: no message is added to either list.
C26_EnsureIdempotentForOwner ==
    \A sid \in DOMAIN created_by, pick1 \in DOMAIN users, pick2 \in DOMAIN users :
        LET A  == created_by[sid]
            S1 == ensure_session_exists(Cur, sid, A, db_up, pick1)
            S2 == ensure_session_exists(S1, sid, A, db_up, pick2)
        IN  (/\ A # None
             /\ sid \in DOMAIN conversations \/ HasRow(chat_sessions, sid, db_up))
            => /\ S1.ret = sid
               /\ S2.ret = sid
               /\ S2.conv[sid].messages = S1.conv[sid].messages
               /\ S2.conv = S1.conv
               /\ S2.db = S1.db
               /\ sid \in DOMAIN chat_sessions
                  => S2.db[sid].messages = chat_sessions[sid].messages

\* The durable-only starting point with messages to duplicate: a session of an
\* identity is stored with messages and not cached, and the store answers.
C26_Witness ==
    /\ db_up
    /\ \E sid \in DOMAIN chat_sessions :
          /\ created_by[sid] # None
          /\ sid \notin DOMAIN conversations
          /\ chat_sessions[sid].messages # <<>>

\* C27: when ensure_session_exists restores a session that is stored and not
\* cached, the session keeps its id and the cached message list is the whole
\* stored message list, in order, however many messages are stored.
C27_RestorationReplaysWholeHistory ==
    [][\A sid \in DOMAIN chat_sessions :
          (/\ db_up
           /\ sid \notin DOMAIN conversations
           /\ \E pick \in DOMAIN users : EnsureSession(sid, created_by[sid], pick))
          => /\ sid \in DOMAIN conversations'
             /\ conversations'[sid].messages = chat_sessions[sid].messages]_vars

\* C28: when ensure_session_exists restores, for the identity that created it, a
\* session that is stored and not cached, the conversation engine attached to the restored session holds every
\* turn whose messages are stored for it.
C28_ContextSurvivesRestoration ==
    [][\A sid \in DOMAIN chat_sessions :
          (/\ db_up
           /\ created_by[sid] # None
           /\ sid \notin DOMAIN conversations
           /\ \E pick \in DOMAIN users : EnsureSession(sid, created_by[sid], pick))
          => \A i \in 1..Len(chat_sessions[sid].messages) :
                \E j \in 1..Len(conversations'[sid].chat_session) :
                   conversations'[sid].chat_session[j] = chat_sessions[sid].messages[i].content]_vars

\* C29: for a session S with messages, cached or stored with the store
\* answering, clear_session(S, A) by the identity A that created S succeeds and
\* leaves S in place under the same id and user_id, with empty cached and stored
\* message lists, message_count 0 and an empty ai_context.
C29_ClearByOwnerEmptiesSession ==
    \A sid \in DOMAIN created_by, pick \in DOMAIN users :
        LET A == created_by[sid]
            S == clear_session(Cur, sid, A, db_up, pick)
        IN  (/\ A # None
             /\ db_up
             /\ sid \in DOMAIN chat_sessions
             /\ chat_sessions[sid].user_id = A
             /\ chat_sessions[sid].messages # <<>>)
            => /\ S.status = "200"
               /\ sid \in DOMAIN S.conv
               /\ S.conv[sid].messages = <<>>
               /\ S.conv[sid].user_id = A
               /\ sid \in DOMAIN S.db
               /\ S.db[sid].user_id = A
               /\ S.db[sid].messages = <<>>
               /\ S.db[sid].message_count = 0
               /\ S.db[sid].ai_context = <<>>

\* C30: with the store answering, delete_session(S, A) by the identity A that
\* created S and owns its row answers 200 and leaves S neither cached nor
\* stored, its messages gone with the row; ensure_session_exists(S, anyone)
\* called afterwards returns another session id, whose message list is empty,
\* and does not bring S back.  A session that is neither cached nor stored does
\* not come back on any step.
C30_DeletedSessionIsGone ==
    /\ [](\A sid \in DOMAIN created_by :
            LET A == created_by[sid]
                D == delete_session(Cur, users, sid, A, db_up)
            IN  (/\ A # None
                 /\ db_up
                 /\ sid \in DOMAIN conversations \/ sid \in DOMAIN chat_sessions
                 /\ sid \in DOMAIN chat_sessions => chat_sessions[sid].user_id = A)
                => /\ D.status = "200"
                   /\ sid \notin DOMAIN D.conv
                   /\ sid \notin DOMAIN D.db
                   /\ \A user \in ResolvedIdentities, pick \in DOMAIN users :
                         LET E == ensure_session_exists(D, sid, user, db_up, pick) IN
                         /\ E.ret # sid
                         /\ E.ret \in DOMAIN E.conv
                         /\ E.conv[E.ret].messages = <<>>
                         /\ E.ret \in DOMAIN E.db => E.db[E.ret].messages = <<>>
                         /\ sid \notin DOMAIN E.conv
                         /\ sid \notin DOMAIN E.db)
    /\ [][\A sid \in DOMAIN created_by :
             (sid \notin DOMAIN conversations /\ sid \notin DOMAIN chat_sessions)
             => (sid \notin DOMAIN conversations' /\ sid \notin DOMAIN chat_sessions')]_vars

\* A session of an identity is cached and stored with messages, owned by its
\* creator, the store answers, and another session has already gone from both
\* the cache and the table.
C30_Witness ==
    /\ db_up
    /\ \E sid \in DOMAIN created_by :
          /\ created_by[sid] # None
          /\ sid \in DOMAIN conversations
          /\ sid \in DOMAIN chat_sessions
          /\ chat_sessions[sid].user_id = created_by[sid]
          /\ chat_sessions[sid].messages # <<>>
    /\ \E gone \in DOMAIN created_by :
          gone \notin DOMAIN conversations /\ gone \notin DOMAIN chat_sessions

\* The stored messages of a row come in turns: a user message immediately
\* followed by the assistant reply of the same turn.
InTurns(msgs) ==
    /\ Len(msgs) % 2 = 0
    /\ \A i \in 1..Len(msgs) :
          IF i % 2 = 1
          THEN msgs[i].role = "user" /\ msgs[i + 1].content = msgs[i].content
          ELSE msgs[i].role = "assistant"

\* C31: in every state each stored session holds its messages in turns,
\* message_count is the number of messages stored, and the messages carry
\* message_index 0, 1, ..., in the order they were sent.
C31_MessagesIndexedInSendOrder ==
    \A sid \in DOMAIN chat_sessions :
        LET row == chat_sessions[sid] IN
        /\ InTurns(row.messages)
        /\ row.message_count = Len(row.messages)
        /\ Len(row.message_index) = Len(row.messages)
        /\ \A i \in 1..Len(row.message_index) : row.message_index[i] = i - 1

\* C32: under every interleaving of writers on one session, the message_index
\* values assigned to its messages are strictly increasing in insertion order,
\* so no two messages of the session share one.
C32_IndicesUniqueUnderConcurrency ==
    \A sid \in DOMAIN chat_sessions :
        LET idx == chat_sessions[sid].message_index IN
        \A i, j \in 1..Len(idx) :
            (i < j /\ idx[i] # NoIndex /\ idx[j] # NoIndex) => idx[i] < idx[j]

\* C33: once no write is in flight, message_count of every session is the
\* number of messages stored for it.
C33_NoLostCountUpdate ==
    (\A w \in 1..MaxWriters : writers[w].pc = "idle")
    => \A sid \in DOMAIN chat_sessions :
          chat_sessions[sid].message_count = Len(chat_sessions[sid].messages)

\* C34: when the conversation engine fails (an error, or a quota refusal) in
\* send_message on a session, whoever calls and whatever the store does, the
\* session's cache record and its stored row are those from before the call;
\* a cache record or row the call itself made holds no message beyond the
\* stored ones it replayed.
C34_FailedTurnRecordsNothing ==
    \A sid \in NameableSids, user \in ResolvedIdentities, pick \in DOMAIN users,
       engine \in {"quota", "error"} :
        LET S == send_message(Cur, sid, user, db_up, pick, engine, turns + 1) IN
        /\ sid \in DOMAIN conversations => S.conv[sid] = conversations[sid]
        /\ sid \in DOMAIN chat_sessions => S.db[sid] = chat_sessions[sid]
        /\ \A s \in DOMAIN S.conv \ DOMAIN conversations :
              S.conv[s].messages = get_session_messages(chat_sessions, s, db_up)
        /\ \A s \in DOMAIN S.db \ DOMAIN chat_sessions :
              S.db[s].messages = <<>> /\ S.db[s].message_count = 0

\* A session with stored and cached messages exists for the failing call, and a
\* stored session is not cached, so the call would first restore it.
C34_Witness ==
    /\ \E sid \in DOMAIN conversations :
          /\ sid \in DOMAIN chat_sessions
          /\ conversations[sid].messages # <<>>
          /\ chat_sessions[sid].messages # <<>>
    /\ \E sid \in DOMAIN chat_sessions : sid \notin DOMAIN conversations

\* C35: a failing store is never fatal to the live operation.  With the store
\* raising on every call, create_session still returns a new session id whose
\* cache record exists and is empty, and send_message with a working engine
\* still returns the session it used, whose cached messages end with the
\* user/assistant pair of the turn; nothing reaches the store.
C35_StoreFailureNotFatal ==
    /\ \A user \in ResolvedIdentities :
          LET S == create_session(Cur, user, FALSE) IN
          /\ S.ret # None
          /\ S.ret \notin DOMAIN conversations
          /\ S.ret \in DOMAIN S.conv
          /\ S.conv[S.ret].messages = <<>>
          /\ S.conv[S.ret].user_id = user
          /\ S.db = chat_sessions
    /\ \A sid \in NameableSids, user \in ResolvedIdentities, pick \in DOMAIN users :
          LET S == send_message(Cur, sid, user, FALSE, pick, "ok", turns + 1)
              s == S.ret
              before == IF s \in DOMAIN conversations THEN conversations[s].messages
                        ELSE <<>>
          IN  /\ s # None
              /\ s \in DOMAIN S.conv
              /\ S.conv[s].messages =
                    before \o <<Msg("user", turns + 1), Msg("assistant", turns + 1)>>
              /\ S.db = chat_sessions

\* A turn was taken while the store was failing: the cache of an owned session
\* holds a pair its row does not.
C35_Witness ==
    /\ ~db_up
    /\ \E sid \in DOMAIN conversations :
          /\ created_by[sid] # None
          /\ Len(conversations[sid].messages) >= 2
          /\ \/ sid \notin DOMAIN chat_sessions
             \/ Len(chat_sessions[sid].messages) < Len(conversations[sid].messages)

\* C36: a failure while ensure_session_exists restores a stored session makes
\* the call create a new session and leaves no cache record of the stored one,
\* whether the store fails at the row lookup or at the load of the messages.
C36_FailedRestoreLeavesNoEntry ==
    \A sid \in DOMAIN chat_sessions, user \in ResolvedIdentities, pick \in DOMAIN users :
        sid \notin DOMAIN conversations =>
            LET L == ensure_session_exists(Cur, sid, user, FALSE, pick)
                M == restore_session(Cur, sid, user, FALSE)
            IN  /\ L.ret # sid /\ sid \notin DOMAIN L.conv
                /\ db_up => (M.ret # sid /\ sid \notin DOMAIN M.conv)

\* C37: logout invalidates the token it was called with.  After logout_user
\* answered a request carrying a bearer token, that token resolves to no
\* identity: get_current_user_optional gives none and
\* require_authenticated_user does not answer 200.
C37_LogoutInvalidatesToken ==
    \A authorization \in AuthorizationInputs \ {NoAuthorization} :
        extract_bearer_token(authorization) /\ authorization.token.type = "access" =>
            LET U == logout_user(users, authorization).users IN
            /\ get_current_user_optional(U, authorization, None, now, db_up).id = None
            /\ require_authenticated_user(U, authorization, now, db_up).status # "200"

\* C38: expires_in of the AuthTokens a successful login returns is the
\* lifetime, in seconds, of the access token in the same answer (exp minus the
\* time of issue), with and without remember_me.
C38_ExpiresInIsTokenLifetime ==
    \A email \in AuthEmails, password \in PasswordInputs, remember_me \in BOOLEAN :
        LET r == login_user(users, email, password, remember_me, now, db_up) IN
        r.status = "200" => r.expires_in = (r.tokens[1].exp - now) * 3600

\* C39: one chat request creates at most one session, and the pair of the turn
\* goes to the session whose id the answer carries.  For a requested id that is
\* cached or has a row that session is used; for an unknown id or none a new
\* one is.  With a working engine the messages of the session used grow by
\* exactly the pair and no other cached session changes; a 200 answer names
\* that session.
C39_ChatUsesOneSession ==
    \A sid \in NameableSids \cup {None}, user \in ResolvedIdentities, pick \in DOMAIN users,
       engine \in {"ok", "quota", "error"} :
        LET R == chat_with_teacher(Cur, sid, user, db_up, pick, engine, turns + 1)
            S == R.state
            r == S.ret
            known == sid # None /\ (sid \in DOMAIN conversations \/ HasRow(chat_sessions, sid, db_up))
            before == IF r \in DOMAIN conversations THEN conversations[r].messages
                      ELSE get_session_messages(chat_sessions, r, db_up)
        IN  /\ Cardinality(DOMAIN S.created \ DOMAIN created_by) <= 1
            /\ known => r = sid /\ DOMAIN S.created = DOMAIN created_by
            /\ ~known => r \notin DOMAIN created_by /\ r \in DOMAIN S.created
            /\ r \in DOMAIN S.conv
            /\ \A s \in DOMAIN S.conv \ {r} :
                  s \in DOMAIN conversations /\ S.conv[s] = conversations[s]
            /\ engine = "ok" =>
                  S.conv[r].messages =
                      before \o <<Msg("user", turns + 1), Msg("assistant", turns + 1)>>
            /\ R.status = "200" => R.session_id = r

\* A chat request with an unknown session id was answered with a new session
\* holding the pair, next to an older session that kept its messages.
C39_Witness ==
    \E s \in DOMAIN conversations, o \in DOMAIN created_by :
        /\ s # o
        /\ created_by[s] = None
        /\ conversations[s].messages = <<Msg("user", turns), Msg("assistant", turns)>>
        /\ turns > 0

\* C40: cache and store agree on messages.  Whenever the store answers, every
\* cached session has the same message sequence in the store as in the cache
\* (a session without a row counting as an empty stored sequence).
C40_CacheAndStoreAgree ==
    db_up =>
        \A sid \in DOMAIN conversations :
            conversations[sid].messages =
                IF sid \in DOMAIN chat_sessions THEN chat_sessions[sid].messages ELSE <<>>
====
